---- MODULE Spec2Model ----
(***************************************************************************)
(* Incremental tokenizer of scorpeon.vim (Tokenizer.parse and toByteIndex) *)
(* as a state machine.  A line is a sequence of UTF-16 code units, a       *)
(* document a sequence of lines.  The per-buffer cache prevDatas is the    *)
(* state.  Calls the host serializes are the one action parse, from entry  *)
(* to the settling of the promise; calls that may overlap are the two      *)
(* steps parseBegin and parseThen, split at the only suspension point of   *)
(* parse, the await of registry.loadGrammar.  The highlight-group         *)
(* resolver getHighlightGroup is a pure function of the scopes of a token  *)
(* and the override mapping: one call of it is the action resolve.         *)
(***************************************************************************)
EXTENDS Integers, Sequences, FiniteSets, TLC

VARIABLES prevDatas, calls, ret, edit, serial, resolved

vars == <<prevDatas, calls, ret, edit, serial, resolved>>

\* Longest document the callers supply.
MaxLines == 2

----------------------------------------------------------------------------
(* Strings.  Code units: "a" is U+0061, "q" is U+0022 (a quote), "W" is a  *)
(* BMP character of three UTF-8 bytes (U+3042), "H" "L" are the high and   *)
(* low surrogate of one astral character (four UTF-8 bytes as a pair).     *)

\* Width in UTF-8 of one code unit encoded alone; a lone surrogate is
\* encoded as U+FFFD.
UnitBytes(u) == IF u \in {"a", "q"} THEN 1 ELSE 3

\* (new TextEncoder()).encode(s).length
RECURSIVE EncodedLength(_)
EncodedLength(s) ==
  IF s = <<>> THEN 0
  ELSE IF Len(s) >= 2 /\ s[1] = "H" /\ s[2] = "L"
       THEN 4 + EncodedLength(SubSeq(s, 3, Len(s)))
       ELSE UnitBytes(s[1]) + EncodedLength(Tail(s))

\* str.slice(0, idx) for idx >= 0
slice(str, idx) == SubSeq(str, 1, IF idx < Len(str) THEN idx ELSE Len(str))

\* The index left in code units.
toByteIndexUnits(str, idx) == idx

toByteIndex(str, idx) == EncodedLength(slice(str, idx))

----------------------------------------------------------------------------
(* The grammar registry and the line tokenizer (vscode-textmate), as a     *)
(* deterministic stand-in: in a grammar one code unit toggles a region     *)
(* that may span lines; a token is a maximal run of units of one kind.     *)

\* this.grammars, as read from the package manifests: scopeName -> path.
GrammarPaths == [g \in {"source.g1", "source.g2", "source.bad"} |->
                   IF g = "source.bad" THEN "unreadable" ELSE "readable"]

ScopeNames == {"source.g1", "source.g2", "source.bad", "source.none"}

null == "null"

rejected == "rejected"

\* The loadGrammar callback of the registry and Registry.loadGrammar.
loadGrammar(scopeName) ==
  IF scopeName \notin DOMAIN GrammarPaths THEN null
  ELSE IF GrammarPaths[scopeName] = "unreadable" THEN rejected
  ELSE scopeName

\* vsctm.INITIAL
INITIAL == <<"INITIAL">>

undefined == <<"undefined">>

Toggle(grammar) == IF grammar = "source.g1" THEN "q" ELSE "W"

InnerScope(grammar) == IF grammar = "source.g1" THEN "string.quoted.double" ELSE "comment.block"

ModeOf(ruleStack) == IF ruleStack = INITIAL THEN "out" ELSE ruleStack[2]

\* Kind of every unit of the line and the mode after the line.
RECURSIVE Kinds(_, _, _, _)
Kinds(grammar, line, mode, acc) ==
  IF line = <<>> THEN [kinds |-> acc, mode |-> mode]
  ELSE LET t == (line[1] = Toggle(grammar))
           k == IF mode = "in" \/ t THEN "in" ELSE "out"
           m == IF t THEN (IF mode = "in" THEN "out" ELSE "in") ELSE mode
       IN Kinds(grammar, Tail(line), m, Append(acc, k))

ScopesOf(grammar, kind) ==
  IF kind = "in" THEN <<grammar, InnerScope(grammar)>> ELSE <<grammar>>

\* Maximal runs of kinds[from..], as tokens with 0-indexed [startIndex, endIndex).
RECURSIVE Runs(_, _, _, _)
Runs(grammar, kinds, from, acc) ==
  IF from > Len(kinds) THEN acc
  ELSE LET stop == CHOOSE e \in from..Len(kinds) :
                     /\ \A j \in from..e : kinds[j] = kinds[from]
                     /\ (e = Len(kinds) \/ kinds[e + 1] # kinds[from])
       IN Runs(grammar, kinds, stop + 1,
               Append(acc, [startIndex |-> from - 1, endIndex |-> stop,
                            scopes |-> ScopesOf(grammar, kinds[from])]))

\* The tokens and the mode after a line entered in a mode: at least one
\* token for every line.
scanLine(grammar, line, mode) ==
  LET r == Kinds(grammar, line, mode, <<>>)
  IN [tokens |-> IF line = <<>>
                 THEN <<[startIndex |-> 0, endIndex |-> 0,
                         scopes |-> ScopesOf(grammar, mode)]>>
                 ELSE Runs(grammar, r.kinds, 1, <<>>),
      mode |-> r.mode]

----------------------------------------------------------------------------
(* Inputs.                                                                  *)

LineSet == { <<"W", "q", "a">>, <<"H", "L", "a">> }

WideLineSet == LineSet \cup { <<"a">>, <<"q">>, <<>> }

RECURSIVE SeqsUpTo(_, _)
SeqsUpTo(S, n) ==
  IF n = 0 THEN {<<>>}
  ELSE LET shorter == SeqsUpTo(S, n - 1)
       IN shorter \cup {Append(s, x) : s \in {t \in shorter : Len(t) = n - 1}, x \in S}

Documents == SeqsUpTo(LineSet, MaxLines)

WideDocuments == SeqsUpTo(WideLineSet, MaxLines)

\* Documents of calls that overlap: a line repeated, or a line that differs
\* from it after the first line.
NarrowDocuments ==
  {lines \in Documents : \A i \in 1..Len(lines) : i # 2 => lines[i] = <<"W", "q", "a">>}

RepeatDocuments ==
  {lines \in Documents : \A i \in 1..Len(lines) : lines[i] = <<"W", "q", "a">>}

\* scanLine over the lines of the model, computed once.
ScanTable ==
  [grammar \in {"source.g1", "source.g2"} |->
    [line \in WideLineSet |->
      [mode \in {"out", "in"} |-> scanLine(grammar, line, mode)]]]

\* grammar.tokenizeLine(line, ruleStack)
tokenizeLine(grammar, line, ruleStack) ==
  LET r == ScanTable[grammar][line][ModeOf(ruleStack)]
  IN [tokens |-> r.tokens, ruleStack |-> <<grammar, r.mode>>]

Buffers == {1, 2}

\* The documents of a buffer when two buffers are parsed side by side.
BufferDocuments(bufnr) == IF bufnr = 1 THEN NarrowDocuments ELSE RepeatDocuments

----------------------------------------------------------------------------
(* The highlight-group resolver (getHighlightGroup).  A scope name or a    *)
(* rule key is a sequence of characters, so that startsWith and length are *)
(* computed; a Rule object is the sequence of its entries in the order     *)
(* Object.keys enumerates them, the insertion order of the keys.           *)

\* const defaultRule: Rule = {} and the assignments that fill it.
defaultRule ==
  <<
    [scope |-> <<"c", "o", "m", "m", "e", "n", "t">>,
     hlGroup |-> "VsctmComment"],
    [scope |-> <<"c", "o", "m", "m", "e", "n", "t", ".", "l", "i", "n", "e">>,
     hlGroup |-> "VsctmCommentLine"],
    [scope |-> <<"c", "o", "m", "m", "e", "n", "t", ".", "b", "l", "o", "c", "k">>,
     hlGroup |-> "VsctmCommentBlock"],
    [scope |-> <<"c", "o", "n", "s", "t", "a", "n", "t">>,
     hlGroup |-> "VsctmConstant"],
    [scope |-> <<"c", "o", "n", "s", "t", "a", "n", "t", ".", "n", "u", "m", "e", "r", "i", "c">>,
     hlGroup |-> "VsctmConstantNumeric"],
    [scope |-> <<"c", "o", "n", "s", "t", "a", "n", "t", ".", "c", "h", "a", "r", "a", "c", "t", "e", "r">>,
     hlGroup |-> "VsctmConstantCharacter"],
    [scope |-> <<"c", "o", "n", "s", "t", "a", "n", "t", ".", "c", "h", "a", "r", "a", "c", "t", "e", "r", ".", "e", "s", "c", "a", "p", "e">>,
     hlGroup |-> "VsctmConstantCharacterEscape"],
    [scope |-> <<"c", "o", "n", "s", "t", "a", "n", "t", ".", "l", "a", "n", "g", "u", "a", "g", "e">>,
     hlGroup |-> "VsctmConstantLanguage"],
    [scope |-> <<"k", "e", "y", "w", "o", "r", "d">>,
     hlGroup |-> "VsctmKeyword"],
    [scope |-> <<"k", "e", "y", "w", "o", "r", "d", ".", "c", "o", "n", "t", "r", "o", "l">>,
     hlGroup |-> "VsctmKeywordControl"],
    [scope |-> <<"k", "e", "y", "w", "o", "r", "d", ".", "o", "p", "e", "r", "a", "t", "o", "r">>,
     hlGroup |-> "VsctmKeywordOperator"],
    [scope |-> <<"m", "a", "r", "k", "u", "p">>,
     hlGroup |-> "VsctmMarkup"],
    [scope |-> <<"m", "a", "r", "k", "u", "p", ".", "u", "n", "d", "e", "r", "l", "i", "n", "e">>,
     hlGroup |-> "VsctmMarkupUnderline"],
    [scope |-> <<"m", "a", "r", "k", "u", "p", ".", "u", "n", "d", "e", "r", "l", "i", "n", "e", ".", "l", "i", "n", "k">>,
     hlGroup |-> "VsctmMarkupUnderlineLink"],
    [scope |-> <<"m", "a", "r", "k", "u", "p", ".", "b", "o", "l", "d">>,
     hlGroup |-> "VsctmMarkupBold"],
    [scope |-> <<"m", "a", "r", "k", "u", "p", ".", "h", "e", "a", "d", "i", "n", "g">>,
     hlGroup |-> "VsctmMarkupHeading"],
    [scope |-> <<"m", "a", "r", "k", "u", "p", ".", "i", "t", "a", "l", "i", "c">>,
     hlGroup |-> "VsctmMarkupItalic"],
    [scope |-> <<"m", "a", "r", "k", "u", "p", ".", "l", "i", "s", "t">>,
     hlGroup |-> "VsctmMarkupList"],
    [scope |-> <<"m", "a", "r", "k", "u", "p", ".", "q", "u", "o", "t", "e">>,
     hlGroup |-> "VsctmMarkupQuote"],
    [scope |-> <<"m", "a", "r", "k", "u", "p", ".", "r", "a", "w">>,
     hlGroup |-> "VsctmMarkupRaw"],
    [scope |-> <<"s", "t", "o", "r", "a", "g", "e">>,
     hlGroup |-> "VsctmStorage"],
    [scope |-> <<"s", "t", "o", "r", "a", "g", "e", ".", "t", "y", "p", "e">>,
     hlGroup |-> "VsctmStorageType"],
    [scope |-> <<"s", "t", "o", "r", "a", "g", "e", ".", "m", "o", "d", "i", "f", "i", "e", "r">>,
     hlGroup |-> "VsctmStorageModifier"],
    [scope |-> <<"s", "t", "r", "i", "n", "g">>,
     hlGroup |-> "VsctmString"],
    [scope |-> <<"s", "t", "r", "i", "n", "g", ".", "q", "u", "o", "t", "e", "d">>,
     hlGroup |-> "VsctmStringQuoted"],
    [scope |-> <<"s", "t", "r", "i", "n", "g", ".", "q", "u", "o", "t", "e", "d", ".", "s", "i", "n", "g", "l", "e">>,
     hlGroup |-> "VsctmStringQuotedSingle"],
    [scope |-> <<"s", "t", "r", "i", "n", "g", ".", "q", "u", "o", "t", "e", "d", ".", "d", "o", "u", "b", "l", "e">>,
     hlGroup |-> "VsctmStringQuotedDouble"],
    [scope |-> <<"s", "t", "r", "i", "n", "g", ".", "q", "u", "o", "t", "e", "d", ".", "t", "r", "i", "p", "l", "e">>,
     hlGroup |-> "VsctmStringQuotedTriple"],
    [scope |-> <<"s", "t", "r", "i", "n", "g", ".", "u", "n", "q", "u", "o", "t", "e", "d">>,
     hlGroup |-> "VsctmStringUnquoted"],
    [scope |-> <<"s", "t", "r", "i", "n", "g", ".", "i", "n", "t", "e", "r", "p", "o", "l", "a", "t", "e", "d">>,
     hlGroup |-> "VsctmStringInterpolated"],
    [scope |-> <<"s", "t", "r", "i", "n", "g", ".", "r", "e", "g", "e", "x", "p">>,
     hlGroup |-> "VsctmStringRegexp"],
    [scope |-> <<"s", "u", "p", "p", "o", "r", "t">>,
     hlGroup |-> "VsctmSupport"],
    [scope |-> <<"s", "u", "p", "p", "o", "r", "t", ".", "f", "u", "n", "c", "t", "i", "o", "n">>,
     hlGroup |-> "VsctmSupportFunction"],
    [scope |-> <<"s", "u", "p", "p", "o", "r", "t", ".", "c", "l", "a", "s", "s">>,
     hlGroup |-> "VsctmSupportClass"],
    [scope |-> <<"s", "u", "p", "p", "o", "r", "t", ".", "t", "y", "p", "e">>,
     hlGroup |-> "VsctmSupportType"],
    [scope |-> <<"s", "u", "p", "p", "o", "r", "t", ".", "c", "o", "n", "s", "t", "a", "n", "t">>,
     hlGroup |-> "VsctmSupportConstant"],
    [scope |-> <<"s", "u", "p", "p", "o", "r", "t", ".", "v", "a", "r", "i", "a", "b", "l", "e">>,
     hlGroup |-> "VsctmSupportVariable"],
    [scope |-> <<"v", "a", "r", "i", "a", "b", "l", "e">>,
     hlGroup |-> "VsctmVariable"],
    [scope |-> <<"v", "a", "r", "i", "a", "b", "l", "e", ".", "p", "a", "r", "a", "m", "e", "t", "e", "r">>,
     hlGroup |-> "VsctmVariableParameter"],
    [scope |-> <<"v", "a", "r", "i", "a", "b", "l", "e", ".", "l", "a", "n", "g", "u", "a", "g", "e">>,
     hlGroup |-> "VsctmVariableLanguage"]
  >>

\* scope.startsWith(prefix)
startsWith(scope, prefix) ==
  /\ Len(prefix) <= Len(scope)
  /\ SubSeq(scope, 1, Len(prefix)) = prefix

hasKey(obj, key) == \E k \in 1..Len(obj) : obj[k].scope = key

\* obj[entry.scope] = entry.hlGroup: a present key keeps its place, a new
\* key goes last.
assign(obj, entry) ==
  IF hasKey(obj, entry.scope)
  THEN [k \in 1..Len(obj) |-> IF obj[k].scope = entry.scope THEN entry ELSE obj[k]]
  ELSE Append(obj, entry)

\* The spread with the target keeping its group for a key of both.
spreadTargetWins(target, source) ==
  target \o SelectSeq(source, LAMBDA entry : ~hasKey(target, entry.scope))

\* { ...target, ...source }
RECURSIVE spread(_, _)
spread(target, source) ==
  IF source = <<>> THEN target
  ELSE spread(assign(target, Head(source)), Tail(source))

\* const mergedRule = { ...defaultRule, ...spc_rule }
mergedRule(spc_rule) == spread(defaultRule, spc_rule)

\* The length of the longest key of the array, 0 for the empty array.
longest(arr) ==
  IF arr = <<>> THEN 0
  ELSE LET n == {Len(arr[k].scope) : k \in 1..Len(arr)}
       IN CHOOSE m \in n : \A l \in n : l <= m

\* The entries of length n, n - 1, ..., 0, those of one length in the order
\* they have in arr.
RECURSIVE downFrom(_, _)
downFrom(arr, n) ==
  IF n < 0 THEN <<>>
  ELSE SelectSeq(arr, LAMBDA rule : Len(rule.scope) = n) \o downFrom(arr, n - 1)

\* The entries of length n, n + 1, ..., top.
RECURSIVE upFrom(_, _, _)
upFrom(arr, n, top) ==
  IF n > top THEN <<>>
  ELSE SelectSeq(arr, LAMBDA rule : Len(rule.scope) = n) \o upFrom(arr, n + 1, top)

\* The array sorted by length ascending.
sortAscending(arr) == upFrom(arr, 0, longest(arr))

\* The array left in the order of the keys.
sortNone(arr) == arr

\* .sort((a, b) => b.scope.length - a.scope.length): stable, by length
\* descending.
sort(arr) == downFrom(arr, longest(arr))

\* Object.keys(mergedRule).map(...).sort(...)
ruleArray(spc_rule) == sort(mergedRule(spc_rule))

\* for (const rule of ruleArray) if (scope.startsWith(rule.scope)) return
\* rule.hlGroup, from the k-th rule on; null when the loop ends.
RECURSIVE firstRule(_, _, _)
firstRule(scope, rules, k) ==
  IF k > Len(rules) THEN null
  ELSE IF startsWith(scope, rules[k].scope) THEN rules[k].hlGroup
  ELSE firstRule(scope, rules, k + 1)

\* The outer loop going down to the first entry of scopes.
RECURSIVE scanScopesFromRoot(_, _, _)
scanScopesFromRoot(scopes, rules, i) ==
  IF i >= 0
  THEN IF firstRule(scopes[i + 1], rules, 1) # null
       THEN firstRule(scopes[i + 1], rules, 1)
       ELSE scanScopesFromRoot(scopes, rules, i - 1)
  ELSE null

\* for (let i = ...; i > 0; i--) over scopes[i], and return null after it.
RECURSIVE scanScopes(_, _, _)
scanScopes(scopes, rules, i) ==
  IF i > 0
  THEN IF firstRule(scopes[i + 1], rules, 1) # null
       THEN firstRule(scopes[i + 1], rules, 1)
       ELSE scanScopes(scopes, rules, i - 1)
  ELSE null

getHighlightGroup(scopes, spc_rule) ==
  scanScopes(scopes, ruleArray(spc_rule), Len(scopes) - 1)

\* Scope names of tokens and override mappings the callers supply.
source_js == <<"s", "o", "u", "r", "c", "e", ".", "j", "s">>

string_quoted_double_js ==
  <<"s", "t", "r", "i", "n", "g", ".", "q", "u", "o", "t", "e", "d", ".",
    "d", "o", "u", "b", "l", "e", ".", "j", "s">>

entity_name_js == <<"e", "n", "t", "i", "t", "y", ".", "n", "a", "m", "e", ".", "j", "s">>

comment_block_js ==
  <<"c", "o", "m", "m", "e", "n", "t", ".", "b", "l", "o", "c", "k", ".", "j", "s">>

meta_js == <<"m", "e", "t", "a", ".", "j", "s">>

ScopeSet == {source_js, string_quoted_double_js, entity_name_js, comment_block_js, meta_js}

\* Longest scopes sequence of a token.
MaxScopes == 3

ScopeSeqs == SeqsUpTo(ScopeSet, MaxScopes)

\* {"string": "Str", "string.quoted.double": "StrDQ"}
StringRule ==
  << [scope |-> <<"s", "t", "r", "i", "n", "g">>, hlGroup |-> "Str"],
     [scope |-> <<"s", "t", "r", "i", "n", "g", ".", "q", "u", "o", "t", "e", "d", ".",
                  "d", "o", "u", "b", "l", "e">>,
      hlGroup |-> "StrDQ"] >>

\* {"entity": "Ent", "entity.name": "EntName"}
EntityRule ==
  << [scope |-> <<"e", "n", "t", "i", "t", "y">>, hlGroup |-> "Ent"],
     [scope |-> <<"e", "n", "t", "i", "t", "y", ".", "n", "a", "m", "e">>,
      hlGroup |-> "EntName"] >>

\* {"entity.name": "EntName", "entity": "Ent"}
EntityRuleNameFirst == <<EntityRule[2], EntityRule[1]>>

\* {"source": "Src", "comment.block": "Cmt"}
SourceRule ==
  << [scope |-> <<"s", "o", "u", "r", "c", "e">>, hlGroup |-> "Src"],
     [scope |-> <<"c", "o", "m", "m", "e", "n", "t", ".", "b", "l", "o", "c", "k">>,
      hlGroup |-> "Cmt"] >>

RuleInputs == {<<>>, StringRule, EntityRule, EntityRuleNameFirst, SourceRule}

\* The call of getHighlightGroup: what it got and, once it returned, what
\* it returned.
NoResolve == [status |-> "none", scopes |-> <<>>, spc_rule |-> <<>>, hlGroup |-> null]

----------------------------------------------------------------------------
(* State.  prevDatas maps the buffers parsed so far to their PrevData;     *)
(* calls holds the parse calls suspended at loadGrammar; ret is what the   *)
(* call that completed last handed to its caller, with a record of the     *)
(* collaborators it invoked; edit, kept by SpecPairs alone, tells how the  *)
(* arguments of that call differ from those of the call before it;         *)
(* serial, kept by SpecBuffers alone, is what the calls begun so far leave *)
(* and return when each runs to its end before the next begins; resolved   *)
(* is the last call of getHighlightGroup.                                  *)

\* The PrevData a first parse of a buffer creates.
EmptyData == [lines |-> <<>>, stacks |-> <<>>, tokens |-> <<>>]

NoReturn == [bufnr |-> 0, scopeName |-> "", lines |-> <<>>, status |-> "none",
             tokens |-> <<>>, start |-> 0, first |-> 0, created |-> FALSE,
             loaded |-> FALSE, tokenized |-> <<>>]

\* Values of edit besides the index k >= 0 of the one line that differs.
SameCall == -1

OtherCall == -2

Init ==
  /\ prevDatas = <<>>
  /\ calls = <<>>
  /\ ret = NoReturn
  /\ edit = OtherCall
  /\ serial = <<>>
  /\ resolved = NoResolve

\* findIndex that stops at the end of the snapshot: appended lines are no
\* change.
findIndexCommon(lines, prevLines) ==
  IF \E i \in 1..Len(lines) : i <= Len(prevLines) /\ lines[i] # prevLines[i]
  THEN (CHOOSE i \in 1..Len(lines) :
          /\ i <= Len(prevLines) /\ lines[i] # prevLines[i]
          /\ \A j \in 1..(i - 1) : lines[j] = prevLines[j]) - 1
  ELSE -1

\* lines.findIndex((e, i) => e !== prevLines[i]), scanning from index i.
RECURSIVE findIndexFrom(_, _, _)
findIndexFrom(lines, prevLines, i) ==
  IF i >= Len(lines) THEN -1
  ELSE IF i >= Len(prevLines) \/ lines[i + 1] # prevLines[i + 1] THEN i
  ELSE findIndexFrom(lines, prevLines, i + 1)

findIndex(lines, prevLines) == findIndexFrom(lines, prevLines, 0)

\* The filter with the 0-indexed start taken for a line number.
filterTokensOffByOne(tokens, start) == SelectSeq(tokens, LAMBDA token : token.line < start)

\* prevData.tokens.filter((token) => token.line < start + 1)
filterTokens(tokens, start) == SelectSeq(tokens, LAMBDA token : token.line < start + 1)

\* The loop entered from the initial state whatever is cached.
resumeInitial(stacks, start) == INITIAL

\* prevData.stacks[start - 1] || vsctm.INITIAL
resumeStack(stacks, start) ==
  IF start - 1 < 0 \/ start - 1 >= Len(stacks) \/ stacks[start] = undefined
  THEN INITIAL
  ELSE stacks[start]

\* prevData.stacks[i] = ruleStack, on an array that may be shorter than i.
RECURSIVE setStack(_, _, _)
setStack(stacks, i, ruleStack) ==
  IF i < Len(stacks) THEN [stacks EXCEPT ![i + 1] = ruleStack]
  ELSE IF i = Len(stacks) THEN Append(stacks, ruleStack)
  ELSE setStack(Append(stacks, undefined), i, ruleStack)

\* The Token built from one token of the line tokenizer on line i.
token(i, startIndex, endIndex, scopes) ==
  [line |-> i + 1, column |-> startIndex + 1, length |-> endIndex - startIndex,
   scopes |-> scopes]

makeToken(line, i, itoken) ==
  token(i, toByteIndex(line, itoken.startIndex), toByteIndex(line, itoken.endIndex),
        itoken.scopes)

lineTokensOf(line, i, itokens) ==
  [k \in 1..Len(itokens) |-> makeToken(line, i, itokens[k])]

\* One pass of the loop body on line i: the tokens pushed, the stacks array
\* and the indices handed to tokenizeLine so far.
pushLine(line, i, lineTokens, acc) ==
  [tokens |-> acc.tokens \o lineTokensOf(line, i, lineTokens.tokens),
   stacks |-> setStack(acc.stacks, i, lineTokens.ruleStack),
   tokenized |-> Append(acc.tokenized, i)]

\* The loop with ruleStack never advanced: every line starts from the state
\* the first one started from.
RECURSIVE tokenizeFromUnthreaded(_, _, _, _, _)
tokenizeFromUnthreaded(grammar, lines, i, ruleStack, acc) ==
  IF i >= Len(lines) THEN acc
  ELSE tokenizeFromUnthreaded(grammar, lines, i + 1, ruleStack,
         pushLine(lines[i + 1], i, tokenizeLine(grammar, lines[i + 1], ruleStack), acc))

\* The for loop over lines[i..], entered with ruleStack.
RECURSIVE tokenizeFrom(_, _, _, _, _)
tokenizeFrom(grammar, lines, i, ruleStack, acc) ==
  IF i >= Len(lines) THEN acc
  ELSE tokenizeFrom(grammar, lines, i + 1,
         tokenizeLine(grammar, lines[i + 1], ruleStack).ruleStack,
         pushLine(lines[i + 1], i, tokenizeLine(grammar, lines[i + 1], ruleStack), acc))

\* The entry of the first buffer read for every buffer.
dataOfFirst(bufnr) == IF 1 \in DOMAIN prevDatas THEN prevDatas[1] ELSE EmptyData

\* this.prevDatas[bufnr], after the lazy creation.
dataOf(bufnr) == IF bufnr \in DOMAIN prevDatas THEN prevDatas[bufnr] ELSE EmptyData

setData(bufnr, data) ==
  [b \in DOMAIN prevDatas \cup {bufnr} |-> IF b = bufnr THEN data ELSE prevDatas[b]]

\* The first changed line found and no token dropped.
pruneNothing(prevData, start) == [start |-> start, data |-> prevData]

\* parse up to the call of registry.loadGrammar: the first changed line and
\* the PrevData with the tokens from that line on dropped.
pruneFrom(prevData, start) ==
  [start |-> start,
   data |-> IF start = -1 THEN prevData
            ELSE [prevData EXCEPT !.tokens = filterTokens(prevData.tokens, start)]]

diffAndPrune(prevData, lines) == pruneFrom(prevData, findIndex(lines, prevData.lines))

\* The no-change branch returning no tokens.
noChangeReturnEmpty(prevData, start) == <<<<>>, start>>

\* return [prevData.tokens, start] of the no-change branch.
noChangeReturn(prevData, start) == <<prevData.tokens, start>>

\* The null-grammar branch returning the index found.
noGrammarReturnStart(start) == <<<<>>, start>>

\* return [[], 0] of the continuation when the grammar is null.
noGrammarReturn(start) == <<<<>>, 0>>

\* The continuation returning the cached list.
grammarReturnCached(tokens, cached, start) == <<cached, start>>

\* return [tokens, start] of the continuation after the loop.
grammarReturn(tokens, cached, start) == <<tokens, start>>

\* The end of the continuation, after the loop gave r and left cached in
\* prevData.tokens: prevData.lines = lines and the return.
afterLoop(lines, start, r, cached) ==
  [data |-> [lines |-> lines, stacks |-> r.stacks, tokens |-> cached],
   value |-> grammarReturn(r.tokens, cached, start),
   tokenized |-> r.tokenized]

\* The loop gave r: it pushed every token to its own list and to
\* prevData.tokens.
looped(prevData, lines, start, r) ==
  afterLoop(lines, start, r, prevData.tokens \o r.tokens)

\* The continuation of loadGrammar: the PrevData it leaves and what it
\* returns.
continuation(prevData, grammar, lines, start) ==
  IF grammar = null
  THEN [data |-> prevData, value |-> noGrammarReturn(start), tokenized |-> <<>>]
  ELSE looped(prevData, lines, start,
         tokenizeFrom(grammar, lines, start, resumeStack(prevData.stacks, start),
                      [tokens |-> <<>>, stacks |-> prevData.stacks,
                       tokenized |-> <<>>]))

\* What a completed call leaves in ret.
returned(call, status, value, loaded, tokenized) ==
  [bufnr |-> call.bufnr, scopeName |-> call.scopeName, lines |-> call.lines,
   status |-> status, tokens |-> value[1], start |-> value[2],
   first |-> call.start, created |-> call.created, loaded |-> loaded,
   tokenized |-> tokenized]

\* A call after its synchronous part: its arguments, the index findIndex
\* gave it and whether it created the buffer's PrevData.
callOf(bufnr, scopeName, lines, start) ==
  [bufnr |-> bufnr, scopeName |-> scopeName, lines |-> lines, start |-> start,
   created |-> bufnr \notin DOMAIN prevDatas]

\* The promise of parse fulfilled with what the continuation c returned.
fulfil(call, c) ==
  /\ prevDatas' = setData(call.bufnr, c.data)
  /\ ret' = returned(call, "fulfilled", c.value, TRUE, c.tokenized)

\* How a call that found a change ends, from the PrevData pruned: the
\* loader rejects, yields null or yields the grammar.
settle(call, pruned) ==
  IF loadGrammar(call.scopeName) = rejected
  THEN /\ prevDatas' = setData(call.bufnr, pruned)
       /\ ret' = returned(call, "rejected", <<<<>>, 0>>, TRUE, <<>>)
  ELSE fulfil(call, continuation(pruned, loadGrammar(call.scopeName),
                                 call.lines, call.start))

\* The no-change branch: nothing but the lazily created entry changes.
unchanged(call, prevData) ==
  /\ prevDatas' = setData(call.bufnr, prevData)
  /\ ret' = returned(call, "fulfilled", noChangeReturn(prevData, call.start),
                     FALSE, <<>>)

\* One parse call from entry to the settling of its promise, with no other
\* call in between: the host delivers one buffer-change notification at a
\* time.
parseFrom(bufnr, scopeName, lines, d) ==
  /\ calls = <<>>
  /\ UNCHANGED calls
  /\ IF d.start = -1
     THEN unchanged(callOf(bufnr, scopeName, lines, d.start), d.data)
     ELSE settle(callOf(bufnr, scopeName, lines, d.start), d.data)

parse(bufnr, scopeName, lines) ==
  parseFrom(bufnr, scopeName, lines, diffAndPrune(dataOf(bufnr), lines))

\* The synchronous part of a parse call that other calls may overlap: it
\* returns on no change, else prunes and suspends at loadGrammar.
parseBeginFrom(bufnr, scopeName, lines, d) ==
  IF d.start = -1
  THEN unchanged(callOf(bufnr, scopeName, lines, d.start), d.data) /\ UNCHANGED calls
  ELSE /\ prevDatas' = setData(bufnr, d.data)
       /\ calls' = Append(calls, callOf(bufnr, scopeName, lines, d.start))
       /\ UNCHANGED ret

parseBegin(bufnr, scopeName, lines) ==
  parseBeginFrom(bufnr, scopeName, lines, diffAndPrune(dataOf(bufnr), lines))

\* The continuation dropping the tokens from its first changed line on
\* again before it runs.
capturedPruned(call) == pruneFrom(prevDatas[call.bufnr], call.start).data

\* The object the const prevData of a suspended call refers to, as its
\* continuation finds it.
captured(call) == prevDatas[call.bufnr]

\* The continuation of the suspended call calls[k].
parseThen(k) ==
  /\ calls' = [j \in 1..(Len(calls) - 1) |-> IF j < k THEN calls[j] ELSE calls[j + 1]]
  /\ settle(calls[k], captured(calls[k]))

SerialBuffers == {1}

Next ==
  \E bufnr \in SerialBuffers, scopeName \in ScopeNames, lines \in Documents :
    parse(bufnr, scopeName, lines) /\ UNCHANGED <<edit, serial, resolved>>

Spec == Init /\ [][Next]_vars

\* Serialized calls that all name the one grammar source.g1.
NextOneGrammar ==
  \E bufnr \in SerialBuffers, lines \in WideDocuments :
    parse(bufnr, "source.g1", lines) /\ UNCHANGED <<edit, serial, resolved>>

SpecOneGrammar == Init /\ [][NextOneGrammar]_vars

\* How the arguments of a call differ from those of the call in ret.
editOf(bufnr, scopeName, lines) ==
  LET changed == {i \in 0..(Len(lines) - 1) : lines[i + 1] # ret.lines[i + 1]}
  IN IF \/ ret.status = "none"
        \/ ret.bufnr # bufnr
        \/ ret.scopeName # scopeName
        \/ Len(ret.lines) # Len(lines)
     THEN OtherCall
     ELSE IF changed = {} THEN SameCall
     ELSE IF Cardinality(changed) = 1 THEN CHOOSE i \in changed : TRUE
     ELSE OtherCall

PairScopeNames == {"source.g1", "source.none"}

\* Serialized calls, each compared with the call before it.
NextPairs ==
  \E bufnr \in SerialBuffers, scopeName \in PairScopeNames, lines \in Documents :
    /\ parse(bufnr, scopeName, lines)
    /\ edit' = editOf(bufnr, scopeName, lines)
    /\ UNCHANGED <<serial, resolved>>

SpecPairs == Init /\ [][NextPairs]_vars

\* Serialized calls that switch between the two grammars that resolve.
GrammarNames == {"source.g1", "source.g2"}

NextGrammars ==
  \E bufnr \in SerialBuffers, scopeName \in GrammarNames, lines \in Documents :
    parse(bufnr, scopeName, lines) /\ UNCHANGED <<edit, serial, resolved>>

SpecGrammars == Init /\ [][NextGrammars]_vars

\* What a call leaves and returns when it runs from entry to the settling
\* of its promise on the PrevData d.data, diffed and pruned: the PrevData at
\* its suspension, the one at its end, and its result.
ranAlone(d, scopeName, lines, c) ==
  IF d.start = -1
  THEN [pruned |-> d.data, data |-> d.data, status |-> "fulfilled",
        value |-> noChangeReturn(d.data, d.start)]
  ELSE IF loadGrammar(scopeName) = rejected
  THEN [pruned |-> d.data, data |-> d.data, status |-> "rejected", value |-> <<<<>>, 0>>]
  ELSE [pruned |-> d.data, data |-> c.data, status |-> "fulfilled", value |-> c.value]

serialOf(d, scopeName, lines) ==
  ranAlone(d, scopeName, lines,
           IF d.start = -1 \/ loadGrammar(scopeName) = rejected THEN d
           ELSE continuation(d.data, loadGrammar(scopeName), lines, d.start))

serialData(bufnr) == IF bufnr \in DOMAIN serial THEN serial[bufnr].data ELSE EmptyData

\* The buffers with a call suspended at loadGrammar.
Busy == {calls[k].bufnr : k \in 1..Len(calls)}

\* A call begins on a buffer that has no call in flight, whatever is in
\* flight on the other buffers.
beginOn(bufnr, scopeName, lines) ==
  /\ bufnr \notin Busy
  /\ parseBegin(bufnr, scopeName, lines)
  /\ serial' = [b \in DOMAIN serial \cup {bufnr} |->
                  IF b = bufnr
                  THEN serialOf(diffAndPrune(serialData(bufnr), lines), scopeName, lines)
                  ELSE serial[b]]
  /\ UNCHANGED <<edit, resolved>>

\* Any of the suspended calls continues.
thenOn(k) == parseThen(k) /\ UNCHANGED <<edit, serial, resolved>>

NextBuffers ==
  \/ \E bufnr \in Buffers :
       \E scopeName \in PairScopeNames, lines \in BufferDocuments(bufnr) :
         beginOn(bufnr, scopeName, lines)
  \/ \E k \in 1..Len(calls) : thenOn(k)

\* Calls serialized on each buffer and overlapping across buffers.
SpecBuffers == Init /\ [][NextBuffers]_vars

\* Most calls of one buffer in flight together.
MaxCalls == 2

\* A call begins on the buffer while others are in flight on it.
overlapBegin(bufnr, scopeName, lines) ==
  /\ Len(calls) < MaxCalls
  /\ parseBegin(bufnr, scopeName, lines)
  /\ UNCHANGED <<edit, serial, resolved>>

NextOverlap ==
  \/ \E bufnr \in SerialBuffers, scopeName \in PairScopeNames, lines \in RepeatDocuments :
       overlapBegin(bufnr, scopeName, lines)
  \/ \E k \in 1..Len(calls) : thenOn(k)

\* Calls on one buffer that nothing serializes.
SpecOverlap == Init /\ [][NextOverlap]_vars

\* The highlighter about to call getHighlightGroup on the scopes of a token
\* with the override mapping of the user.
InitResolve ==
  /\ prevDatas = <<>>
  /\ calls = <<>>
  /\ ret = NoReturn
  /\ edit = OtherCall
  /\ serial = <<>>
  /\ \E scopes \in ScopeSeqs, spc_rule \in RuleInputs :
       resolved = [status |-> "called", scopes |-> scopes, spc_rule |-> spc_rule,
                   hlGroup |-> null]

\* The call of getHighlightGroup, to its return.
resolve ==
  /\ resolved.status = "called"
  /\ resolved' = [resolved EXCEPT
                    !.status = "returned",
                    !.hlGroup = getHighlightGroup(resolved.scopes, resolved.spc_rule)]
  /\ UNCHANGED <<prevDatas, calls, ret, edit, serial>>

NextResolve == resolve

SpecResolve == InitResolve /\ [][NextResolve]_vars

----------------------------------------------------------------------------
(* Vocabulary of the properties.                                           *)

Resolvable(scopeName) == loadGrammar(scopeName) \notin {null, rejected}

\* The call in ret returned a value.
Returned == ret.status = "fulfilled"

\* The cache entry of the buffer of the call in ret.
Cached == prevDatas[ret.bufnr]

LinesOf(tokens) == {tokens[k].line : k \in 1..Len(tokens)}

UpTo(tokens, n) == SelectSeq(tokens, LAMBDA t : t.line <= n)

Between(tokens, lo, hi) == SelectSeq(tokens, LAMBDA t : lo < t.line /\ t.line <= hi)

After(tokens, n) == SelectSeq(tokens, LAMBDA t : t.line > n)

\* The indices at which a document differs from a snapshot; an index past
\* the end of the snapshot differs.
Differing(lines, snapshot) ==
  {i \in 0..(Len(lines) - 1) : i >= Len(snapshot) \/ lines[i + 1] # snapshot[i + 1]}

Least(S) == CHOOSE i \in S : \A j \in S : i <= j

\* UTF-8 bytes of the characters of a line that begin at the code units
\* lo <= p < hi (0-indexed): a surrogate pair is one character of 4 bytes.
RECURSIVE CharBytes(_, _, _, _)
CharBytes(line, p, lo, hi) ==
  IF p >= Len(line) \/ p >= hi THEN 0
  ELSE LET pair == line[p + 1] = "H" /\ p + 1 < Len(line) /\ line[p + 2] = "L"
           width == IF pair THEN 4
                    ELSE IF line[p + 1] = "W" THEN 3 ELSE 1
       IN (IF p >= lo THEN width ELSE 0)
          + CharBytes(line, IF pair THEN p + 2 ELSE p + 1, lo, hi)

\* The Token the contract asks for one token of the line tokenizer.
ExpectedToken(line, i, itoken) ==
  [line |-> i + 1,
   column |-> 1 + CharBytes(line, 0, 0, itoken.startIndex),
   length |-> CharBytes(line, 0, itoken.startIndex, itoken.endIndex),
   scopes |-> itoken.scopes]

ExpectedLine(line, i, itokens) ==
  [k \in 1..Len(itokens) |-> ExpectedToken(line, i, itokens[k])]

\* Every line from index i on tokenized in order, each from the state the
\* line before it left.
RECURSIVE FromScratch(_, _, _, _)
FromScratch(grammar, lines, i, state) ==
  IF i >= Len(lines) THEN <<>>
  ELSE LET r == tokenizeLine(grammar, lines[i + 1], state)
       IN ExpectedLine(lines[i + 1], i, r.tokens)
          \o FromScratch(grammar, lines, i + 1, r.ruleStack)

\* The call in ret' has the arguments of the call in ret, which returned.
Repeated ==
  /\ ret.status = "fulfilled"
  /\ ret'.status # "none"
  /\ ret'.bufnr = ret.bufnr
  /\ ret'.scopeName = ret.scopeName
  /\ ret'.lines = ret.lines

\* The call in ret' edits exactly line k of the document of the call in
\* ret, on the same buffer with the same resolvable grammar.
EditsLine(k) ==
  /\ ret.status = "fulfilled"
  /\ ret'.status = "fulfilled"
  /\ ret'.bufnr = ret.bufnr
  /\ ret'.scopeName = ret.scopeName
  /\ Resolvable(ret.scopeName)
  /\ Len(ret'.lines) = Len(ret.lines)
  /\ {i \in 0..(Len(ret.lines) - 1) : ret'.lines[i + 1] # ret.lines[i + 1]} = {k}

----------------------------------------------------------------------------
(* The properties.                                                          *)

C3_ColdEqualsFromScratch ==
  Returned /\ ret.created /\ Resolvable(ret.scopeName) =>
    /\ ret.tokens = FromScratch(ret.scopeName, ret.lines, 0, INITIAL)
    /\ (ret.lines # <<>> => ret.start = 0)

\* A first call on two lines, the second of which starts inside the region
\* the first one opened.
C3_Witness ==
  /\ Returned /\ ret.created /\ ret.scopeName = "source.g1"
  /\ Len(ret.lines) = 2
  /\ ret.start = 0
  /\ \E k \in 1..Len(ret.tokens) :
       /\ ret.tokens[k].line = 2
       /\ ret.tokens[k].column = 1
       /\ Len(ret.tokens[k].scopes) = 2

Evicts(before, after, s, r) ==
  /\ r.first = s
  /\ UpTo(after, s) = UpTo(before, s)
  /\ Resolvable(r.scopeName) =>
       /\ r.start = s
       /\ \A j \in 1..Len(r.tokens) : r.tokens[j].line > s
       /\ after = UpTo(before, s) \o r.tokens
  /\ ~Resolvable(r.scopeName) => after = UpTo(before, s)

EvictsAt(before, after, diff, r) ==
  diff # {} => Evicts(before.tokens, after, Least(diff), r)

\* C5: a call that detects a change and resolves its grammar returns the
\* least index at which currentLines differs from the cached lines; the
\* cached tokens of the lines <= that index stay, in order, and those of
\* the later lines are removed: after the call the cache holds the former
\* followed by the fresh tokens, all of later lines, and after a call whose
\* grammar is null it holds the former alone.
C5_EvictionAfterEdit ==
  [][ret'.status = "fulfilled" =>
       EvictsAt(dataOf(ret'.bufnr), prevDatas'[ret'.bufnr].tokens,
                Differing(ret'.lines, dataOf(ret'.bufnr).lines), ret')]_vars

\* A change at index 1: the tokens of line 1 are kept, line 2 is redone.
C5_Witness ==
  /\ Returned /\ Resolvable(ret.scopeName)
  /\ ret.start = 1
  /\ Len(ret.lines) = 2
  /\ LinesOf(Cached.tokens) = {1, 2}

\* The state a call resumes line i from: the initial one for the first
\* line, else the one cached for the line before.
StateBefore(i) == IF i = 0 THEN INITIAL ELSE Cached.stacks[i]

OnLine(tokens, n) == SelectSeq(tokens, LAMBDA t : t.line = n)

\* The code units before idx are one 3-byte character and ASCII.
OneWideBefore(line, idx) ==
  /\ Cardinality({p \in 1..idx : line[p] = "W"}) = 1
  /\ \A p \in 1..idx : line[p] \in {"a", "q", "W"}

\* C6 as stated: -1 and the cached tokens are returned only when
\* currentLines equals the cached lines snapshot in length and content,
\* also when currentLines is a proper prefix of the snapshot.
C6_NoChangeSoundness ==
  Returned /\ ret.start = -1 =>
    /\ Len(ret.lines) = Len(Cached.lines)
    /\ ret.lines = Cached.lines

\* C7 as stated: with one resolvable grammar, once a call completes the
\* cached lines are the currentLines just supplied and the cached tokens
\* are, for each of these lines, that line's tokens once, with no token of
\* a line past the last.
C7_FreshAfterEveryCall ==
  Returned =>
    /\ Cached.lines = ret.lines
    /\ \A n \in 1..Len(ret.lines) :
         OnLine(Cached.tokens, n)
           = OnLine(FromScratch(ret.scopeName, ret.lines, 0, INITIAL), n)
    /\ \A k \in 1..Len(Cached.tokens) : Cached.tokens[k].line <= Len(ret.lines)

\* C8: a call that detects a change and whose grammar the loader cannot
\* resolve completes normally with an empty token list and index 0,
\* whatever the first changed line is, and never calls tokenizeLine.
C8_GrammarLoadDegradation ==
  ret.status # "none" /\ ret.first # -1 /\ loadGrammar(ret.scopeName) = null =>
    /\ ret.status = "fulfilled"
    /\ ret.tokens = <<>>
    /\ ret.start = 0
    /\ ret.tokenized = <<>>

\* A call without grammar whose first changed line is the second one.
C8_Witness ==
  /\ Returned
  /\ loadGrammar(ret.scopeName) = null
  /\ ret.first = 1
  /\ ret.start = 0
  /\ ret.tokens = <<>>

\* C9 as stated: a call whose grammar fails to resolve, made on a cache
\* that holds tokens for every line of its lines snapshot, leaves stacks
\* and lines as they were and the cache still holding tokens for every
\* line of the snapshot.
C9_ConsistentAfterGrammarFailure ==
  [][LET before == dataOf(ret'.bufnr)
         after == prevDatas'[ret'.bufnr]
     IN /\ ret'.status = "fulfilled"
        /\ Differing(ret'.lines, before.lines) # {}
        /\ loadGrammar(ret'.scopeName) = null
        /\ 1..Len(before.lines) \subseteq LinesOf(before.tokens)
        => /\ after.stacks = before.stacks
           /\ after.lines = before.lines
           /\ 1..Len(after.lines) \subseteq LinesOf(after.tokens)]_vars

\* C10: every token of the line tokenizer on a re-tokenized line i, with
\* character range [startIndex, endIndex), is emitted once, in order, with
\* line i + 1, column 1 + the UTF-8 bytes of the characters before
\* startIndex and length the UTF-8 bytes of the characters in the range;
\* after one 3-byte character the column is startIndex + 1 + 2.
C10_ByteOffsets ==
  Returned /\ Resolvable(ret.scopeName) /\ ret.first # -1 =>
    \A i \in ret.first..(Len(ret.lines) - 1) :
      LET line == ret.lines[i + 1]
          itokens == tokenizeLine(ret.scopeName, line, StateBefore(i)).tokens
          emitted == OnLine(ret.tokens, i + 1)
      IN /\ Len(emitted) = Len(itokens)
         /\ \A k \in 1..Len(itokens) :
              /\ emitted[k].line = i + 1
              /\ emitted[k].column
                   = 1 + CharBytes(line, 0, 0, itokens[k].startIndex)
              /\ emitted[k].length
                   = CharBytes(line, 0, itokens[k].startIndex, itokens[k].endIndex)
              /\ emitted[k].scopes = itokens[k].scopes
              /\ OneWideBefore(line, itokens[k].startIndex) =>
                   emitted[k].column = itokens[k].startIndex + 1 + 2

\* A token after one 3-byte character, at column 4 for startIndex 1, and a
\* token over a surrogate pair, 5 bytes long for 3 code units.
C10_Witness ==
  /\ Returned /\ ret.scopeName = "source.g1" /\ ret.first # -1
  /\ \E k \in 1..Len(ret.tokens) :
       /\ ret.lines[ret.tokens[k].line] = <<"W", "q", "a">>
       /\ ret.tokens[k].column = 4
       /\ ret.tokens[k].length = 2
  /\ \E k \in 1..Len(ret.tokens) :
       /\ ret.lines[ret.tokens[k].line] = <<"H", "L", "a">>
       /\ ret.tokens[k].column = 1
       /\ ret.tokens[k].length = 5

----------------------------------------------------------------------------
(* Vocabulary of the properties of getHighlightGroup.                      *)

IsPrefix(p, str) == Len(p) <= Len(str) /\ \A k \in 1..Len(p) : p[k] = str[k]

\* A Rule object as a set of key-group pairs.
Mapping(rule) == {<<rule[k].scope, rule[k].hlGroup>> : k \in 1..Len(rule)}

KeysOf(rule) == {rule[k].scope : k \in 1..Len(rule)}

GroupOf(rule, key) == (CHOOSE e \in Mapping(rule) : e[1] = key)[2]

\* The keys of a set that are prefixes of a scope.
PrefixesOf(scope, keys) == {key \in keys : IsPrefix(key, scope)}

\* The indices j >= 1 (0-indexed) of the scopes some key is a prefix of.
MatchedAt(scopes, keys) ==
  {j \in 1..(Len(scopes) - 1) : PrefixesOf(scopes[j + 1], keys) # {}}

Greatest(S) == CHOOSE i \in S : \A j \in S : j <= i

LongestKey(keys) == CHOOSE key \in keys : \A other \in keys : Len(other) <= Len(key)

\* The key the contract selects: the longest prefix of the deepest scope
\* that has one.
SelectedKey(scopes, keys) ==
  LongestKey(PrefixesOf(scopes[Greatest(MatchedAt(scopes, keys)) + 1], keys))

Reversed(seq) == [k \in 1..Len(seq) |-> seq[Len(seq) + 1 - k]]

ResolveReturned == resolved.status = "returned"

\* C11: getHighlightGroup returns the group of the longest rule key of the
\* merged mapping that is a string-prefix of scopes[j], j being the largest
\* index >= 1 at which some rule key is a prefix of scopes[j]: a deeper
\* scope with any match wins over a shallower one with a longer key.
C11_ResolverPrecedence ==
  ResolveReturned /\ MatchedAt(resolved.scopes, KeysOf(mergedRule(resolved.spc_rule))) # {} =>
    resolved.hlGroup
      = GroupOf(mergedRule(resolved.spc_rule),
                SelectedKey(resolved.scopes, KeysOf(mergedRule(resolved.spc_rule))))

\* ["source.js", "string.quoted.double.js"] with {"string": "Str",
\* "string.quoted.double": "StrDQ"} gives "StrDQ".
C11_Witness ==
  /\ ResolveReturned
  /\ resolved.scopes = <<source_js, string_quoted_double_js>>
  /\ resolved.spc_rule = StringRule
  /\ resolved.hlGroup = "StrDQ"

\* C12: getHighlightGroup returns null whenever no rule key is a prefix of
\* any of scopes[1..]; scopes[0] is never consulted, so a scopes sequence of
\* length 0 or 1 gives null for every mapping, also when a rule key is a
\* prefix of scopes[0].
C12_NoMatchAndRootExclusion ==
  ResolveReturned =>
    /\ MatchedAt(resolved.scopes, KeysOf(mergedRule(resolved.spc_rule))) = {}
         => resolved.hlGroup = null
    /\ Len(resolved.scopes) <= 1 => resolved.hlGroup = null

\* A single scope that a rule key is a prefix of, resolved to null.
C12_Witness ==
  /\ ResolveReturned
  /\ Len(resolved.scopes) = 1
  /\ PrefixesOf(resolved.scopes[1], KeysOf(mergedRule(resolved.spc_rule))) # {}
  /\ resolved.hlGroup = null

\* The group the contract gives a key: the override's when the override has
\* the key, else the default's.
EffectiveGroup(key, spc_rule) ==
  IF key \in KeysOf(spc_rule) THEN GroupOf(spc_rule, key) ELSE GroupOf(defaultRule, key)

\* C13: getHighlightGroup works on the default mapping merged with the
\* override: the key it selects among the keys of both gives the override's
\* group when the override has the key, never the default's group for that
\* key, and the default's group when the override lacks the key.
C13_OverridePrecedence ==
  ResolveReturned
  /\ MatchedAt(resolved.scopes, KeysOf(defaultRule) \cup KeysOf(resolved.spc_rule)) # {} =>
    LET key == SelectedKey(resolved.scopes,
                           KeysOf(defaultRule) \cup KeysOf(resolved.spc_rule))
    IN /\ resolved.hlGroup = EffectiveGroup(key, resolved.spc_rule)
       /\ key \in KeysOf(resolved.spc_rule) /\ key \in KeysOf(defaultRule)
          /\ GroupOf(resolved.spc_rule, key) # GroupOf(defaultRule, key)
            => resolved.hlGroup # GroupOf(defaultRule, key)

\* The key "comment.block" of both mappings, resolved to the override's
\* group.
C13_Witness ==
  /\ ResolveReturned
  /\ resolved.spc_rule = SourceRule
  /\ Len(resolved.scopes) = 2
  /\ resolved.scopes[2] = comment_block_js
  /\ resolved.hlGroup = "Cmt"

\* C20: the result of getHighlightGroup depends only on scopes and on the
\* merged mapping as a set of key-group pairs: an override with the same
\* pairs in another order, and the keys enumerated in the reverse order (by
\* which the stable sort breaks every tie the other way), give the same
\* result, two distinct keys of equal length never being both prefixes of
\* one scope.
C20_ResolverDeterminism ==
  ResolveReturned =>
    /\ \A other \in RuleInputs :
         Mapping(other) = Mapping(resolved.spc_rule)
           => getHighlightGroup(resolved.scopes, other) = resolved.hlGroup
    /\ scanScopes(resolved.scopes, sort(Reversed(mergedRule(resolved.spc_rule))),
                  Len(resolved.scopes) - 1) = resolved.hlGroup
    /\ \A j \in 1..Len(resolved.scopes) :
         \A a, b \in PrefixesOf(resolved.scopes[j], KeysOf(mergedRule(resolved.spc_rule))) :
           Len(a) = Len(b) => a = b

\* "entity.name" inserted before "entity" and tied in length with the
\* default key "markup.bold", resolved to its group.
C20_Witness ==
  /\ ResolveReturned
  /\ resolved.spc_rule = EntityRuleNameFirst
  /\ resolved.hlGroup = "EntName"
  /\ \E key \in KeysOf(defaultRule) : Len(key) = Len(EntityRule[2].scope)

----------------------------------------------------------------------------
(* Properties of the cache across calls.                                   *)

\* The parser state reached by tokenizing lines[0..i] from the initial
\* state under a grammar.
RECURSIVE StateAfter(_, _, _)
StateAfter(grammar, lines, i) ==
  IF i < 0 THEN INITIAL
  ELSE tokenizeLine(grammar, lines[i + 1], StateAfter(grammar, lines, i - 1)).ruleStack

\* C15 as stated: after serialized calls that may change scopeName, for
\* each index i below the length of the cached lines, stacks[i] is the state
\* reached by tokenizing the cached lines[0..i] from the initial state under
\* the grammar of the most recent call.
C15_StackInvariant ==
  Returned =>
    \A i \in 0..(Len(Cached.lines) - 1) :
      /\ i < Len(Cached.stacks)
      /\ Cached.stacks[i + 1] = StateAfter(ret.scopeName, Cached.lines, i)

\* The indices lo, lo + 1, ..., hi - 1 in increasing order.
Ascending(lo, hi) == [k \in 1..(hi - lo) |-> lo + k - 1]

\* The state cached for the line before index i in a PrevData.
CachedBefore(prevData, i) == IF i = 0 THEN INITIAL ELSE prevData.stacks[i]

\* The call in ret' found its first change at an index and resolved its
\* grammar: one tokenizeLine per line from that index on, in order, entered
\* from the state cached before that index.
SuffixOnly(before, r) ==
  /\ r.loaded
  /\ r.tokenized = Ascending(r.first, Len(r.lines))
  /\ r.first > 0 => r.first <= Len(before.stacks) /\ before.stacks[r.first] # undefined
  /\ r.tokens = FromScratch(r.scopeName, r.lines, r.first, CachedBefore(before, r.first))

\* C16: a call that detects a change at index start and resolves its grammar
\* invokes tokenizeLine exactly once for each index start..len - 1 in
\* increasing order and for no index < start, resuming from the state cached
\* at start - 1, which exists whenever start > 0; a call that reports no
\* change invokes neither loadGrammar nor tokenizeLine and leaves the cache
\* entry of its buffer as it was (the empty one when there was none).
C16_SuffixOnlyWork ==
  [][ret'.status = "fulfilled" =>
       /\ ret'.first = -1 =>
            /\ ~ret'.loaded
            /\ ret'.tokenized = <<>>
            /\ prevDatas'[ret'.bufnr] = dataOf(ret'.bufnr)
       /\ ret'.first # -1 /\ Resolvable(ret'.scopeName) =>
            SuffixOnly(dataOf(ret'.bufnr), ret')]_vars

\* A change at index 1 of two lines: tokenizeLine ran for index 1 alone and
\* entered the line inside the region the first line left open.
C16_Witness ==
  /\ Returned /\ ret.scopeName = "source.g1"
  /\ ret.first = 1
  /\ ret.tokenized = <<1>>
  /\ ModeOf(Cached.stacks[1]) = "in"
  /\ \E k \in 1..Len(ret.tokens) :
       /\ ret.tokens[k].line = 2
       /\ ret.tokens[k].column = 1
       /\ Len(ret.tokens[k].scopes) = 2

\* A token list in document order, no line twice: the line numbers do not
\* decrease and within a line the columns increase.
InDocumentOrder(tokens) ==
  \A k \in 1..(Len(tokens) - 1) :
    \/ tokens[k].line < tokens[k + 1].line
    \/ /\ tokens[k].line = tokens[k + 1].line
       /\ tokens[k].column < tokens[k + 1].column

\* C17: in every state reachable by serialized calls on a buffer the cached
\* token list is in document order: the line numbers are non-decreasing
\* along the list and no line has its tokens appended more than once.
C17_DocumentOrder ==
  \A bufnr \in DOMAIN prevDatas : InDocumentOrder(prevDatas[bufnr].tokens)

\* The cache after a change at index 1: the tokens kept for line 1 followed
\* by those appended for line 2, several on each.
C17_Witness ==
  /\ Returned /\ Resolvable(ret.scopeName)
  /\ ret.first = 1
  /\ Len(OnLine(Cached.tokens, 1)) >= 2
  /\ Len(OnLine(Cached.tokens, 2)) >= 2
  /\ Len(Cached.tokens) = Len(OnLine(Cached.tokens, 1)) + Len(OnLine(Cached.tokens, 2))

\* C19 as stated: every serialized call that completes with a resolvable
\* scopeName returns, and leaves cached, for the lines of currentLines the
\* tokens that the grammar named by its scopeName produces for currentLines,
\* also when the call before it on the buffer named another grammar.
C19_GrammarHonoured ==
  Returned /\ Resolvable(ret.scopeName) =>
    \A n \in 1..Len(ret.lines) :
      /\ OnLine(Cached.tokens, n)
           = OnLine(FromScratch(ret.scopeName, ret.lines, 0, INITIAL), n)
      /\ n \in LinesOf(ret.tokens) =>
           OnLine(ret.tokens, n)
             = OnLine(FromScratch(ret.scopeName, ret.lines, 0, INITIAL), n)

----------------------------------------------------------------------------
(* Properties of calls that overlap.                                       *)

\* The entry of a buffer is what its calls, run one after another, leave:
\* at the suspension of the last one while it is in flight, at its end
\* after.
EntryAsSerial(bufnr) ==
  prevDatas[bufnr] = IF bufnr \in Busy THEN serial[bufnr].pruned ELSE serial[bufnr].data

\* The call in ret returned what it returns run alone.
ResultAsSerial(r, alone) ==
  /\ r.status = alone.status
  /\ r.tokens = alone.value[1]
  /\ r.start = alone.value[2]

\* C14: a parse call for one buffer never reads or modifies the cache entry
\* of another buffer: with calls on different buffers interleaved in any
\* order at the grammar-load suspension point, every entry is at all times
\* what the calls of its own buffer, run one after another, make it, and
\* every call returns what it returns in that run.
C14_CrossBufferIndependence ==
  /\ DOMAIN prevDatas = DOMAIN serial
  /\ \A bufnr \in DOMAIN prevDatas : EntryAsSerial(bufnr)
  /\ ret.status # "none" /\ ret.bufnr \notin Busy => ResultAsSerial(ret, serial[ret.bufnr])

\* A call on buffer 1 that resumed at index 1 completed while a call on
\* buffer 2, whose entry holds tokens, was suspended.
C14_Witness ==
  /\ Returned /\ Resolvable(ret.scopeName)
  /\ ret.bufnr = 1
  /\ ret.first = 1
  /\ ret.tokens # <<>>
  /\ 2 \in Busy
  /\ prevDatas[2].tokens # <<>>

\* C18: nothing serializes parse calls on one buffer: the continuation of a
\* call appends its tokens to the cached list as it finds it, whatever the
\* continuations of overlapping calls appended since its own diff-and-prune
\* step, so the tokens of one line can be cached twice, and a no-change call
\* returns the cached list as it is.
C18_OverlapAppends ==
  [][ret'.status = "fulfilled" /\ Resolvable(ret'.scopeName) =>
       /\ Len(calls') < Len(calls) =>
            /\ prevDatas'[ret'.bufnr].tokens = dataOf(ret'.bufnr).tokens \o ret'.tokens
            /\ prevDatas'[ret'.bufnr].lines = ret'.lines
       /\ Len(calls') = Len(calls) =>
            /\ ret'.start = -1
            /\ ret'.tokens = dataOf(ret'.bufnr).tokens
            /\ prevDatas'[ret'.bufnr] = dataOf(ret'.bufnr)]_vars

\* The tokens of a line twice in a row in a list.
Twice(tokens, n) ==
  /\ OnLine(tokens, n) # <<>>
  /\ \E h \in 1..Len(tokens) :
       /\ Len(OnLine(tokens, n)) = 2 * h
       /\ SubSeq(OnLine(tokens, n), 1, h) = SubSeq(OnLine(tokens, n), h + 1, 2 * h)

\* A no-change call, made when no call is in flight, that returned the
\* cached list with the tokens of line 1 twice.
C18_Witness ==
  /\ calls = <<>>
  /\ Returned /\ Resolvable(ret.scopeName)
  /\ ret.first = -1
  /\ ret.tokens = Cached.tokens
  /\ Twice(ret.tokens, 1)

====
